---- MODULE Spec2Model ----
(***************************************************************************)
(* adv-mongo: the migration runner (MigrationManager.go), the transaction  *)
(* scope (MongoDbManager.withTransaction), the repository                  *)
(* (MongoObjectRepository) and its fluent cursor (MongoObjectQuery).       *)
(*                                                                         *)
(* A collection is the sequence of its documents in insertion order.  A    *)
(* document and an application record are functions from field names to    *)
(* values.  Every store call is one atomic step.                           *)
(***************************************************************************)
EXTENDS Integers, Sequences, FiniteSets, TLC

\* ------------------------------------------------------------- bounds
NumMigrations == 3      \* migration ids 1..NumMigrations
MaxRuns == 3            \* go() invocations in one behaviour
MaxFaults == 1          \* store calls that fail in one behaviour
MaxRepairs == 1         \* manual ledger repairs in one behaviour
MaxClock == 2           \* Date.now() ranges over 0..MaxClock
MaxKey == 2             \* application identities 1..MaxKey
MaxGen == 1             \* identities generated by insert in one behaviour
MaxDocs == 2            \* documents in the repository's collection
MaxLimit == 2           \* limit(n) and skip(n) take n in 0..MaxLimit
MaxCombine == 1         \* and/or combinators in one predicate
MaxCrashes == 1         \* process crashes in one behaviour
NumCallers == 3         \* concurrent getCollection calls
NumIndexes == 2         \* indexes declared for the indexed collection

\* endDate: null
Null == -1

MigIds == 1..NumMigrations
Runners == {1, 2}
\* the go() invocation of the sequential specification
R1 == 1

\* ------------------------------------------------------------- errors
\* An Error object: its message and the message of its cause ("" when none).
NoError == [message |-> "", cause |-> ""]
BodyError == [message |-> "BodyError", cause |-> ""]
StoreError == [message |-> "StoreError", cause |-> ""]
GateError == [message |-> "Old migrations not finished with success. Repair db state manually", cause |-> ""]
\* catch (e) { ...; throw new Error("Migration process fails!") }
MigrationFailsError(e) == [message |-> "Migration process fails!", cause |-> ""]

\* ------------------------------------------------------- sequences
Range(s) == {s[i] : i \in DOMAIN s}

Min(a, b) == IF a < b THEN a ELSE b

\* the configured orders: n ids, ascending or descending, for every n
Orders(n) ==
    {[i \in 1 .. k |-> i] : k \in 0 .. n} \cup {[i \in 1 .. k |-> n + 1 - i] : k \in 0 .. n}

\* ------------------------------------------------- identity mapping
\* mutant of ConvertFromDbObj: the reserved key is not deleted
ConvertFromDbObjKeepsKey(dbObj, idProperty) ==
    [k \in DOMAIN dbObj \cup {idProperty} |->
        IF k = idProperty THEN dbObj["_id"] ELSE dbObj[k]]

\* convertFromDbObj: dbObj[idProperty] = dbObj._id; delete dbObj._id
ConvertFromDbObj(dbObj, idProperty) ==
    LET withId == [k \in DOMAIN dbObj \cup {idProperty} |->
                      IF k = idProperty THEN dbObj["_id"] ELSE dbObj[k]]
    IN  [k \in DOMAIN withId \ {"_id"} |-> withId[k]]

\* convertToDbObj: a fresh object; every key of obj copied, idProperty as "_id"
ConvertToDbObj(obj, idProperty) ==
    LET keys == {IF k = idProperty THEN "_id" ELSE k : k \in DOMAIN obj}
    IN  [k \in keys |->
            IF k = "_id" /\ idProperty \in DOMAIN obj THEN obj[idProperty] ELSE obj[k]]

\* ------------------------------------------------- the store's calls
\* the positions of the documents with this _id
IdxOfId(coll, id) == {i \in DOMAIN coll : coll[i]["_id"] = id}

\* collection.find({}).toArray()
FindAllDocs(coll) == coll

\* mutant of InsertOne: the store takes a second document with an _id
InsertOneAgain(coll, doc) == [ok |-> TRUE, coll |-> Append(coll, doc)]

\* collection.insertOne(doc): the store refuses a second document with an _id
InsertOne(coll, doc) ==
    IF IdxOfId(coll, doc["_id"]) /= {}
    THEN [ok |-> FALSE, coll |-> coll]
    ELSE [ok |-> TRUE, coll |-> Append(coll, doc)]

\* mutant of ReplaceOne: the document is added, the one it replaces is kept
ReplaceOneAppends(coll, id, doc, upsert) == Append(coll, doc)

\* collection.replaceOne({_id: id}, doc, {upsert}): the first match is replaced
ReplaceOne(coll, id, doc, upsert) ==
    LET hit == IdxOfId(coll, id)
    IN  IF hit /= {}
        THEN LET i == CHOOSE j \in hit : \A k \in hit : j <= k
             IN  [coll EXCEPT ![i] = doc]
        ELSE IF upsert THEN Append(coll, doc) ELSE coll

\* ------------------------------------------------- repository calls
\* MongoObjectRepository.getAll
RepoGetAll(coll, idProperty) ==
    [i \in DOMAIN FindAllDocs(coll) |-> ConvertFromDbObj(FindAllDocs(coll)[i], idProperty)]

\* mutant of RepoInsert: the record is stored as it was passed
RepoInsertAsPassed(coll, value, idProperty, freshId) ==
    InsertOne(coll, ConvertToDbObj(value, idProperty))

\* MongoObjectRepository.insert: an identity is assigned when there is none
RepoInsert(coll, value, idProperty, freshId) ==
    LET v == IF value[idProperty] = Null
             THEN [value EXCEPT ![idProperty] = freshId] ELSE value
    IN  InsertOne(coll, ConvertToDbObj(v, idProperty))

\* MongoObjectRepository.update: replaceOne with upsert
RepoUpdate(coll, value, idProperty) ==
    ReplaceOne(coll, value[idProperty], ConvertToDbObj(value, idProperty), TRUE)

\* mutant of RepoReplace: replaceOne with upsert
RepoReplaceUpserts(coll, value, idProperty) ==
    ReplaceOne(coll, value[idProperty], ConvertToDbObj(value, idProperty), TRUE)

\* MongoObjectRepository.replace: replaceOne without upsert
RepoReplace(coll, value, idProperty) ==
    ReplaceOne(coll, value[idProperty], ConvertToDbObj(value, idProperty), FALSE)

\* ------------------------------------------------- Query (the builder)
\* getPropName with an empty baseName: the id property is stored as "_id"
GetPropName(idProperty, prop) == IF prop = idProperty THEN "_id" ELSE prop

\* A filter maps field names to conditions; a condition is [op, val], and the
\* bare value of eq is written [op |-> "$eq", val |-> value].
QEmpty == <<>>
QEq(idProperty, prop, value) == GetPropName(idProperty, prop) :> [op |-> "$eq", val |-> value]
QNeq(idProperty, prop, value) == GetPropName(idProperty, prop) :> [op |-> "$ne", val |-> value]
QGt(idProperty, prop, value) == GetPropName(idProperty, prop) :> [op |-> "$gt", val |-> value]
QLt(idProperty, prop, value) == GetPropName(idProperty, prop) :> [op |-> "$lt", val |-> value]

\* Query.and / Query.or: {$and: args}, {$or: args}; the array is written
\* [op |-> "$array", val |-> args]
QAnd(args) == "$and" :> [op |-> "$array", val |-> args]
QOr(args) == "$or" :> [op |-> "$array", val |-> args]

\* Query.not: for (const key in query) res[key] = {$not: query[key]}
QNot(query) == [key \in DOMAIN query |-> [op |-> "$not", val |-> query[key]]]

\* ------------------------------------------- the store's find and count
CondHolds(doc, field, cond) ==
    /\ field \in DOMAIN doc
    /\ CASE cond.op = "$eq" -> doc[field] = cond.val
         [] cond.op = "$ne" -> doc[field] /= cond.val
         [] cond.op = "$gt" -> doc[field] > cond.val
         [] cond.op = "$lt" -> doc[field] < cond.val
         [] cond.op = "$in" -> doc[field] \in Range(cond.val)
         [] OTHER -> FALSE

Matches(doc, filter) == \A k \in DOMAIN filter : CondHolds(doc, k, filter[k])

\* the store accepts a filter: $and and $or take an array of filters, $not
\* takes an operator expression and no bare value
RECURSIVE ValidCond(_)
ValidCond(cond) ==
    CASE cond.op = "$not" -> cond.val.op \notin {"$eq", "$array"} /\ ValidCond(cond.val)
      [] cond.op = "$array" -> FALSE
      [] OTHER -> TRUE

RECURSIVE ValidQuery(_)
ValidQuery(filter) ==
    \A k \in DOMAIN filter :
        IF k \in {"$and", "$or"}
        THEN /\ filter[k].op = "$array"
             /\ filter[k].val /= <<>>
             /\ \A i \in DOMAIN filter[k].val : ValidQuery(filter[k].val[i])
        ELSE ValidCond(filter[k])

\* a document matches a filter the store accepts
RECURSIVE HoldsCond(_, _, _)
HoldsCond(doc, field, cond) ==
    IF cond.op = "$not" THEN ~HoldsCond(doc, field, cond.val)
    ELSE CondHolds(doc, field, cond)

RECURSIVE MatchesQuery(_, _)
MatchesQuery(doc, filter) ==
    \A k \in DOMAIN filter :
        CASE k = "$and" -> \A i \in DOMAIN filter[k].val : MatchesQuery(doc, filter[k].val[i])
          [] k = "$or" -> \E i \in DOMAIN filter[k].val : MatchesQuery(doc, filter[k].val[i])
          [] OTHER -> HoldsCond(doc, k, filter[k])

\* the documents of coll that match, in the collection's order
RECURSIVE FindDocs(_, _)
FindDocs(coll, filter) ==
    IF coll = <<>> THEN <<>>
    ELSE (IF Matches(Head(coll), filter) THEN <<Head(coll)>> ELSE <<>>)
             \o FindDocs(Tail(coll), filter)

\* cursor.sort({field: 1 | -1}): a stable insertion sort
RECURSIVE SortInsert(_, _, _, _)
SortInsert(sorted, d, field, asc) ==
    IF sorted = <<>> THEN <<d>>
    ELSE IF (asc /\ d[field] < Head(sorted)[field]) \/ (~asc /\ d[field] > Head(sorted)[field])
         THEN <<d>> \o sorted
         ELSE <<Head(sorted)>> \o SortInsert(Tail(sorted), d, field, asc)

RECURSIVE SortDocs(_, _, _)
SortDocs(docs, field, asc) ==
    IF docs = <<>> THEN <<>>
    ELSE SortInsert(SortDocs(SubSeq(docs, 1, Len(docs) - 1), field, asc),
                    docs[Len(docs)], field, asc)

\* cursor.skip(n)
SkipDocs(docs, n) == SubSeq(docs, n + 1, Len(docs))

\* cursor.limit(n): a limit of 0 is no limit
LimitDocs(docs, n) == IF n = 0 THEN docs ELSE SubSeq(docs, 1, Min(n, Len(docs)))

\* collection.deleteOne({_id: id}): the first match is removed
DeleteOne(coll, id) ==
    LET hit == IdxOfId(coll, id)
    IN  IF hit = {} THEN coll
        ELSE LET i == CHOOSE j \in hit : \A k \in hit : j <= k
             IN  [j \in 1 .. Len(coll) - 1 |-> IF j < i THEN coll[j] ELSE coll[j + 1]]

\* collection.deleteMany(filter)
RECURSIVE DeleteMany(_, _)
DeleteMany(coll, filter) ==
    IF coll = <<>> THEN <<>>
    ELSE (IF Matches(Head(coll), filter) THEN <<>> ELSE <<Head(coll)>>)
             \o DeleteMany(Tail(coll), filter)

\* ------------------------------------------------------------- state
VARIABLES
    migrations,       \* MigrationManager.migrations: the configured ids, in order
    ledger,           \* the "migration" collection
    pc,               \* per go() invocation: where it stands
    migrationModels,  \* per invocation: the records getAll returned
    idx,              \* per invocation: position in the for loop (1-based)
    model,            \* per invocation: the local `model`
    thrown,           \* per invocation: the error in flight (NoError: none)
    bodyErr,          \* per invocation: the error its migration body threw
    result,           \* per invocation: how go() settled (NoError: resolved)
    wt,               \* per invocation: the withTransaction promise
    txn,              \* per invocation: the transaction of its session
    openSessions,     \* sessions started and not ended (named by invocation)
    running,          \* ids of the migrations whose body is in progress
    executed,         \* per migration id: how many times its body was started
    committed,        \* ids of the migrations whose body's transaction committed
    now,              \* the clock read by Date.now()
    runs,             \* go() invocations started
    faults,           \* store calls that failed
    runFault,         \* per invocation: a store call of this run failed
    repairs,          \* manual repairs of the ledger
    runLog            \* one entry per settled go(): its error and the state it left

migVars == <<migrations, ledger, pc, migrationModels, idx, model, thrown, bodyErr,
             result, wt, txn, openSessions, running, executed, committed, now,
             runs, faults, runFault, repairs, runLog>>

VARIABLES
    collection,       \* MongoObjectRepository.collection: its documents
    repoSession,      \* MongoObjectRepository.session (NoSession: none)
    cursor,           \* the MongoObjectQuery object the caller holds
    oids,             \* identities generated so far
    lastOp,           \* the repository or cursor operation called last
    lastCall,         \* the store call it issued: its kind and its session option
    ret               \* what it returned

repoVars == <<collection, repoSession, cursor, oids, lastOp, lastCall, ret>>

\* the identity mapping on its own: the id property, the caller's record, its
\* storage form, the record converted back, and how far the round trip is
VARIABLES cvIdProperty, cvObj, cvDbObj, cvBack, cvPc

convVars == <<cvIdProperty, cvObj, cvDbObj, cvBack, cvPc>>

\* the builder on its own: the predicate built, the result of Query.not on
\* it, the combinators applied, and how far the caller is
VARIABLES qPred, qNot, qCombined, qPc

queryVars == <<qPred, qNot, qCombined, qPc>>

\* process crashes so far, and what the last one interrupted
VARIABLES crashes, interrupted

crashVars == <<crashes, interrupted>>

VARIABLES
    collectionsMap,   \* MongoDbManager.collectionsMap: name -> promise (0: no entry)
    promises,         \* the promises created: name, state, collection handle, next index
    created,          \* per collection name, how often each declared index was created
    cPc,              \* each getCollection caller: idle, awaiting, got, failed
    cPromise          \* the promise the caller was handed

collVars == <<collectionsMap, promises, created, cPc, cPromise>>

auxVars == <<convVars, queryVars, crashVars, collVars>>

vars == <<migVars, repoVars, auxVars>>

\* the id property of the "migration" collection (MigrationModel.id)
LedgerIdProperty == "id"

NoModel == [id |-> Null, startDate |-> Null, endDate |-> Null, status |-> "NONE"]

\* mutant of Unfinished: the gate looks for FAIL only, and lets PERFORMING pass
UnfinishedFailOnly(models) == \E i \in DOMAIN models : models[i].status = "FAIL"

\* mutant of Unfinished: no gate
UnfinishedNever(models) == FALSE

\* migrationModels.find(x => x.status != "SUCCESS")
Unfinished(models) == \E i \in DOMAIN models : models[i].status /= "SUCCESS"

\* mutant of AlreadyDone: the record found must be unfinished, so none is found
AlreadyDoneIfUnfinished(models, id) ==
    \E i \in DOMAIN models : models[i].id = id /\ models[i].status /= "SUCCESS"

\* migrationModels.find(x => x.id == migration.id)
AlreadyDone(models, id) == \E i \in DOMAIN models : models[i].id = id

\* const model: MigrationModel = {id, startDate: Date.now(), endDate: null, status: "PERFORMING"}
NewModel(id, t) == [id |-> id, startDate |-> t, endDate |-> Null, status |-> "PERFORMING"]

\* mutant of Finished: the endDate is not set
FinishedNoEndDate(m, t, status) == [m EXCEPT !.status = status]

\* model.endDate = Date.now(); model.status = status
Finished(m, t, status) == [m EXCEPT !.endDate = t, !.status = status]

\* Date.now(): the value read; the clock then advances (up to MaxClock)
Tick(t) == Min(t + 1, MaxClock)

CurId(r) == migrations[idx[r]]

CanFault == faults < MaxFaults

\* go() settles: resolved (NoError) or rejected with e
EndRun(r, e) ==
    /\ pc' = [pc EXCEPT ![r] = "done"]
    /\ result' = [result EXCEPT ![r] = e]
    /\ runLog' = Append(runLog, [runner |-> r, error |-> e, ledger |-> ledger',
                                 executed |-> executed', idx |-> idx'[r],
                                 bodyErr |-> bodyErr'[r], fault |-> runFault'[r],
                                 repairs |-> repairs'])

\* no cursor, no call yet
NoSession == "none"
NoSort == [field |-> "", asc |-> TRUE]
NoCursor == [live |-> FALSE, query |-> <<>>, limitValue |-> Null, skipValue |-> Null,
             sortValue |-> NoSort, session |-> NoSession]
NoCall == [kind |-> "none", session |-> NoSession]
\* what a call gave back: a list, a number, a flag, a map; arg is the
\* argument of the call and sent the keys handed to the store
NoRet == [list |-> <<>>, n |-> 0, ok |-> FALSE, arg |-> <<>>, sent |-> <<>>, map |-> <<>>]

\* no record under conversion
NoObj == <<>>

ConvIdle ==
    /\ cvIdProperty = ""
    /\ cvObj = NoObj
    /\ cvDbObj = NoObj
    /\ cvBack = NoObj
    /\ cvPc = "none"

QueryIdle ==
    /\ qPred = QEmpty
    /\ qNot = QEmpty
    /\ qCombined = 0
    /\ qPc = "none"

\* no run was interrupted
NoCrash == [id |-> Null, at |-> 0, executed |-> <<>>, repairs |-> 0]

CrashIdle ==
    /\ crashes = 0
    /\ interrupted = NoCrash

\* the collection names in use: one with declared indexes, one without
CollNames == {"indexed", "plain"}

\* MongoDbManager.indexes: the index declarations by collection name
Indexes == "indexed" :> [i \in 1 .. NumIndexes |-> i]

Callers == 1 .. NumCallers

\* a manager just constructed: empty collectionsMap, nothing created, no call
CollIdle ==
    /\ collectionsMap = [n \in CollNames |-> 0]
    /\ promises = <<>>
    /\ created = [n \in DOMAIN Indexes |-> [i \in DOMAIN Indexes[n] |-> 0]]
    /\ cPc = [c \in Callers |-> "idle"]
    /\ cPromise = [c \in Callers |-> 0]

AuxIdle ==
    /\ ConvIdle
    /\ QueryIdle
    /\ CrashIdle
    /\ CollIdle

\* the repository side at rest
RepoIdle ==
    /\ collection = <<>>
    /\ repoSession = NoSession
    /\ cursor = NoCursor
    /\ oids = 0
    /\ lastOp = "none"
    /\ lastCall = NoCall
    /\ ret = NoRet

\* the migration side before any go()
MigIdle ==
    /\ ledger = <<>>
    /\ pc = [r \in Runners |-> "idle"]
    /\ migrationModels = [r \in Runners |-> <<>>]
    /\ idx = [r \in Runners |-> 1]
    /\ model = [r \in Runners |-> NoModel]
    /\ thrown = [r \in Runners |-> NoError]
    /\ bodyErr = [r \in Runners |-> NoError]
    /\ result = [r \in Runners |-> NoError]
    /\ wt = [r \in Runners |-> "none"]
    /\ txn = [r \in Runners |-> "none"]
    /\ openSessions = {}
    /\ running = {}
    /\ executed = [id \in MigIds |-> 0]
    /\ committed = {}
    /\ now = 0
    /\ runs = 0
    /\ faults = 0
    /\ runFault = [r \in Runners |-> FALSE]
    /\ repairs = 0
    /\ runLog = <<>>

\* a manager configured with any of the orders, on an empty ledger
InitMig ==
    /\ migrations \in Orders(NumMigrations)
    /\ MigIdle
    /\ AuxIdle
    /\ RepoIdle

\* ------------------------------------------------- MigrationManager.go
\* go() is called; repo.getAll(); the gate on the records it returned
GoStart(r) ==
    /\ pc[r] \in {"idle", "done"}
    /\ UNCHANGED <<repoVars, auxVars>>
    /\ runs < MaxRuns
    /\ runs' = runs + 1
    /\ LET models == RepoGetAll(ledger, LedgerIdProperty)
       IN  /\ migrationModels' = [migrationModels EXCEPT ![r] = models]
           /\ idx' = [idx EXCEPT ![r] = 1]
           /\ model' = [model EXCEPT ![r] = NoModel]
           /\ thrown' = [thrown EXCEPT ![r] = NoError]
           /\ bodyErr' = [bodyErr EXCEPT ![r] = NoError]
           /\ wt' = [wt EXCEPT ![r] = "none"]
           /\ txn' = [txn EXCEPT ![r] = "none"]
           /\ runFault' = [runFault EXCEPT ![r] = FALSE]
           /\ UNCHANGED <<migrations, ledger, openSessions, running, executed,
                          committed, now, faults, repairs>>
           /\ IF Unfinished(models)
              THEN EndRun(r, GateError)
              ELSE /\ pc' = [pc EXCEPT ![r] = "loop"]
                   /\ result' = [result EXCEPT ![r] = NoError]
                   /\ UNCHANGED runLog

\* if (mModel) continue
SkipDone(r) ==
    /\ pc[r] = "loop"
    /\ UNCHANGED <<repoVars, auxVars>>
    /\ idx[r] <= Len(migrations)
    /\ AlreadyDone(migrationModels[r], CurId(r))
    /\ idx' = [idx EXCEPT ![r] = @ + 1]
    /\ UNCHANGED <<migrations, ledger, pc, migrationModels, model, thrown, bodyErr,
                   result, wt, txn, openSessions, running, executed, committed, now,
                   runs, faults, runFault, repairs, runLog>>

\* const model = {...}; await repo.insert(model)
InsertModel(r) ==
    /\ pc[r] = "loop"
    /\ UNCHANGED <<repoVars, auxVars>>
    /\ idx[r] <= Len(migrations)
    /\ ~AlreadyDone(migrationModels[r], CurId(r))
    /\ LET t == now
       IN
         LET m == NewModel(CurId(r), t)
             res == RepoInsert(ledger, m, LedgerIdProperty, CurId(r))
         IN  /\ now' = Tick(t)
             /\ model' = [model EXCEPT ![r] = m]
             /\ ledger' = res.coll
             /\ UNCHANGED <<migrations, migrationModels, idx, thrown, bodyErr, wt, txn,
                            openSessions, running, executed, committed, runs, faults,
                            runFault, repairs>>
             /\ IF res.ok
                THEN /\ pc' = [pc EXCEPT ![r] = "inserted"]
                     /\ UNCHANGED <<result, runLog>>
                ELSE EndRun(r, StoreError)

\* the for loop is over: go() resolves
GoFinish(r) ==
    /\ pc[r] = "loop"
    /\ UNCHANGED <<repoVars, auxVars>>
    /\ idx[r] > Len(migrations)
    /\ UNCHANGED <<migrations, ledger, migrationModels, idx, model, thrown, bodyErr,
                   wt, txn, openSessions, running, executed, committed, now, runs,
                   faults, runFault, repairs>>
    /\ EndRun(r, NoError)

\* ------------------------------------- MongoDbManager.withTransaction
\* startSession(); session.withTransaction(...) calls func(session):
\* migration.create(session) and m.go() begins
WithTransactionStart(r) ==
    /\ pc[r] = "inserted"
    /\ UNCHANGED <<repoVars, auxVars>>
    /\ pc' = [pc EXCEPT ![r] = "body"]
    /\ wt' = [wt EXCEPT ![r] = "pending"]
    /\ txn' = [txn EXCEPT ![r] = "active"]
    /\ openSessions' = openSessions \cup {r}
    /\ running' = running \cup {CurId(r)}
    /\ executed' = [executed EXCEPT ![CurId(r)] = @ + 1]
    /\ UNCHANGED <<migrations, ledger, migrationModels, idx, model, thrown, bodyErr,
                   result, committed, now, runs, faults, runFault, repairs, runLog>>

\* m.go() resolves
BodyResolve(r) ==
    /\ pc[r] = "body"
    /\ UNCHANGED <<repoVars, auxVars>>
    /\ pc' = [pc EXCEPT ![r] = "commit"]
    /\ running' = running \ {CurId(r)}
    /\ UNCHANGED <<migrations, ledger, migrationModels, idx, model, thrown, bodyErr,
                   result, wt, txn, openSessions, executed, committed, now, runs,
                   faults, runFault, repairs, runLog>>

\* m.go() rejects
BodyThrow(r) ==
    /\ pc[r] = "body"
    /\ UNCHANGED <<repoVars, auxVars>>
    /\ pc' = [pc EXCEPT ![r] = "abort"]
    /\ running' = running \ {CurId(r)}
    /\ thrown' = [thrown EXCEPT ![r] = BodyError]
    /\ bodyErr' = [bodyErr EXCEPT ![r] = BodyError]
    /\ UNCHANGED <<migrations, ledger, migrationModels, idx, model, result, wt, txn,
                   openSessions, executed, committed, now, runs, faults, runFault,
                   repairs, runLog>>

\* session.withTransaction commits after func resolved; the commit may fail,
\* and then withTransaction rejects with the store's error (func is not run again)
CommitTransaction(r) ==
    /\ pc[r] = "commit"
    /\ UNCHANGED <<repoVars, auxVars>>
    /\ pc' = [pc EXCEPT ![r] = "finally"]
    /\ \/ /\ txn' = [txn EXCEPT ![r] = "committed"]
          /\ committed' = committed \cup {CurId(r)}
          /\ UNCHANGED <<thrown, faults, runFault>>
       \/ /\ CanFault
          /\ txn' = [txn EXCEPT ![r] = "aborted"]
          /\ thrown' = [thrown EXCEPT ![r] = StoreError]
          /\ faults' = faults + 1
          /\ runFault' = [runFault EXCEPT ![r] = TRUE]
          /\ UNCHANGED committed
    /\ UNCHANGED <<migrations, ledger, migrationModels, idx, model, bodyErr, result,
                   wt, openSessions, running, executed, now, runs, repairs, runLog>>

\* session.withTransaction aborts after func rejected; the abort may fail
AbortTransaction(r) ==
    /\ pc[r] = "abort"
    /\ UNCHANGED <<repoVars, auxVars>>
    /\ pc' = [pc EXCEPT ![r] = "finally"]
    /\ txn' = [txn EXCEPT ![r] = "aborted"]
    /\ \/ UNCHANGED <<thrown, faults, runFault>>
       \/ /\ CanFault
          /\ thrown' = [thrown EXCEPT ![r] = StoreError]
          /\ faults' = faults + 1
          /\ runFault' = [runFault EXCEPT ![r] = TRUE]
    /\ UNCHANGED <<migrations, ledger, migrationModels, idx, model, bodyErr, result,
                   wt, openSessions, running, executed, committed, now, runs, repairs,
                   runLog>>

\* mutant of EndSession: endSession after the await, not in a finally: a
\* rejected withTransaction leaves its session open
EndSessionOnSuccessOnly(r) ==
    /\ pc[r] = "finally"
    /\ UNCHANGED <<repoVars, auxVars>>
    /\ openSessions' = IF thrown[r] = NoError THEN openSessions \ {r} ELSE openSessions
    /\ wt' = [wt EXCEPT ![r] = IF thrown[r] = NoError THEN "resolved" ELSE "rejected"]
    /\ pc' = [pc EXCEPT ![r] = IF thrown[r] = NoError THEN "success" ELSE "catch"]
    /\ UNCHANGED <<migrations, ledger, migrationModels, idx, model, thrown, bodyErr,
                   result, txn, running, executed, committed, now, runs, faults,
                   runFault, repairs, runLog>>

\* finally { await endSession }: then withTransaction settles, and go() goes on
\* after the await (resolved) or in its catch (rejected)
EndSession(r) ==
    /\ pc[r] = "finally"
    /\ UNCHANGED <<repoVars, auxVars>>
    /\ openSessions' = openSessions \ {r}
    /\ wt' = [wt EXCEPT ![r] = IF thrown[r] = NoError THEN "resolved" ELSE "rejected"]
    /\ pc' = [pc EXCEPT ![r] = IF thrown[r] = NoError THEN "success" ELSE "catch"]
    /\ UNCHANGED <<migrations, ledger, migrationModels, idx, model, thrown, bodyErr,
                   result, txn, running, executed, committed, now, runs, faults,
                   runFault, repairs, runLog>>

\* ------------------------------------ MigrationManager.go, continued
\* model.endDate = Date.now(); model.status = "SUCCESS"; await repo.update(model)
\* A failed update throws inside the try block: the catch runs next.
PersistSuccess(r) ==
    /\ pc[r] = "success"
    /\ UNCHANGED <<repoVars, auxVars>>
    /\ LET t == now
       IN
         LET m == Finished(model[r], t, "SUCCESS")
         IN  /\ now' = Tick(t)
             /\ model' = [model EXCEPT ![r] = m]
             /\ \/ /\ ledger' = RepoUpdate(ledger, m, LedgerIdProperty)
                   /\ idx' = [idx EXCEPT ![r] = @ + 1]
                   /\ pc' = [pc EXCEPT ![r] = "loop"]
                   /\ UNCHANGED <<thrown, faults, runFault>>
                \/ /\ CanFault
                   /\ thrown' = [thrown EXCEPT ![r] = StoreError]
                   /\ faults' = faults + 1
                   /\ runFault' = [runFault EXCEPT ![r] = TRUE]
                   /\ pc' = [pc EXCEPT ![r] = "catch"]
                   /\ UNCHANGED <<ledger, idx>>
    /\ UNCHANGED <<migrations, migrationModels, bodyErr, result, wt, txn, openSessions,
                   running, executed, committed, runs, repairs, runLog>>

\* catch (e): model.endDate = Date.now(); model.status = "FAIL";
\* await repo.update(model); throw new Error("Migration process fails!")
\* A failed update rejects go() with the store's error instead.
PersistFail(r) ==
    /\ pc[r] = "catch"
    /\ UNCHANGED <<repoVars, auxVars>>
    /\ UNCHANGED <<migrations, migrationModels, idx, thrown, bodyErr, wt, txn,
                   openSessions, running, committed, runs, repairs>>
    /\ LET t == now
       IN
         LET m == Finished(model[r], t, "FAIL")
         IN  /\ now' = Tick(t)
             /\ model' = [model EXCEPT ![r] = m]
             /\ \/ /\ ledger' = RepoUpdate(ledger, m, LedgerIdProperty)
                   /\ UNCHANGED <<faults, runFault, executed>>
                   /\ EndRun(r, MigrationFailsError(thrown[r]))
                \/ /\ CanFault
                   /\ faults' = faults + 1
                   /\ runFault' = [runFault EXCEPT ![r] = TRUE]
                   /\ UNCHANGED <<ledger, executed>>
                   /\ EndRun(r, StoreError)

\* ------------------------------------------------------ the operator
\* Between runs the operator resolves an unfinished ledger record by hand:
\* the record is removed, or marked SUCCESS.
Repair ==
    /\ \A r \in Runners : pc[r] \in {"idle", "done"}
    /\ UNCHANGED <<repoVars, auxVars>>
    /\ repairs < MaxRepairs
    /\ repairs' = repairs + 1
    /\ \E i \in DOMAIN ledger :
         /\ ledger[i].status /= "SUCCESS"
         /\ \/ ledger' = [j \in 1 .. Len(ledger) - 1 |->
                             IF j < i THEN ledger[j] ELSE ledger[j + 1]]
            \/ ledger' = [ledger EXCEPT ![i].status = "SUCCESS"]
    /\ UNCHANGED <<migrations, pc, migrationModels, idx, model, thrown, bodyErr, result,
                   wt, txn, openSessions, running, executed, committed, now, runs,
                   faults, runFault, runLog>>

\* One go() invocation at a time: each run starts after the one before settled.
NextMig ==
    \/ GoStart(R1)
    \/ SkipDone(R1)
    \/ InsertModel(R1)
    \/ GoFinish(R1)
    \/ WithTransactionStart(R1)
    \/ BodyResolve(R1)
    \/ BodyThrow(R1)
    \/ CommitTransaction(R1)
    \/ AbortTransaction(R1)
    \/ EndSession(R1)
    \/ PersistSuccess(R1)
    \/ PersistFail(R1)
    \/ Repair

SpecMig == InitMig /\ [][NextMig]_vars

\* ------------------------------------------- two invocations at a time
\* each runner calls go() once; their steps interleave at every await
GoOnce(r) ==
    /\ pc[r] = "idle"
    /\ GoStart(r)

NextConc ==
    \E r \in Runners :
        \/ GoOnce(r)
        \/ SkipDone(r)
        \/ InsertModel(r)
        \/ GoFinish(r)
        \/ WithTransactionStart(r)
        \/ BodyResolve(r)
        \/ BodyThrow(r)
        \/ CommitTransaction(r)
        \/ AbortTransaction(r)
        \/ EndSession(r)
        \/ PersistSuccess(r)
        \/ PersistFail(r)

SpecConc == InitMig /\ [][NextConc]_vars

\* ------------------------------------------------- a run is interrupted
\* the positions of go() between the insert of the PERFORMING record and the
\* update that persists SUCCESS or FAIL
Unsettled == {"inserted", "body", "commit", "abort", "finally", "success", "catch"}

\* the process dies there: go() never settles, the store drops the process's
\* session and aborts its open transaction, the ledger stays as it is
Crash(r) ==
    /\ pc[r] \in Unsettled
    /\ crashes < MaxCrashes
    /\ crashes' = crashes + 1
    /\ interrupted' = [id |-> model[r].id, at |-> Len(runLog), executed |-> executed,
                       repairs |-> repairs]
    /\ pc' = [pc EXCEPT ![r] = "idle"]
    /\ wt' = [wt EXCEPT ![r] = "none"]
    /\ txn' = [txn EXCEPT ![r] = IF @ = "active" THEN "aborted" ELSE @]
    /\ openSessions' = openSessions \ {r}
    /\ running' = running \ {model[r].id}
    /\ UNCHANGED <<migrations, ledger, migrationModels, idx, model, thrown, bodyErr,
                   result, executed, committed, now, runs, faults, runFault, repairs,
                   runLog>>
    /\ UNCHANGED <<repoVars, convVars, queryVars, collVars>>

\* go() invocations one at a time, any of which may be interrupted
NextCrash ==
    \/ NextMig
    \/ Crash(R1)

SpecCrash == InitMig /\ [][NextCrash]_vars

\* ------------------------------------------- MongoObjectRepository
\* the id property the repository was constructed with
RepoIdProperty == "id"

Keys == 1 .. MaxKey
\* the values of the field v: the predicates tell 0 from 1
Vals == {0, 1}

\* the records a caller passes: the identity may be absent (Null)
Records == [id : Keys \cup {Null}, v : Vals]

\* the key lists a caller passes to getMany
KeyLists == {<<>>} \cup {<<k>> : k \in Keys} \cup {<<k, l>> : k, l \in Keys \cup {Null}}

\* the key lists a caller passes to getManyAsMap: with duplicates and null
MapKeyLists == {<<>>, <<Null>>} \cup {<<k, Null, l>> : k, l \in Keys}

\* the predicates a caller builds with Query
Filters == {QEmpty, QEq(RepoIdProperty, "v", 1), QEq(RepoIdProperty, "id", 1),
            QGt(RepoIdProperty, "v", 0)}

\* the options of a store call: the session it is bound to, and upsert
NoOptions == [session |-> NoSession, upsert |-> FALSE]

\* MongoObjectRepository.getOptions: opt.session = this.session when there is one
GetOptions(session, opt) ==
    IF session /= NoSession THEN [opt EXCEPT !.session = session] ELSE opt

\* the store call as the store sees it
Call(kind, opt) == [kind |-> kind, session |-> opt.session]

ById(key) == "_id" :> [op |-> "$eq", val |-> key]

FromDb(found, idProperty) == [i \in DOMAIN found |-> ConvertFromDbObj(found[i], idProperty)]

FirstOf(list) == IF list = <<>> THEN <<>> ELSE <<list[1]>>

\* get: findOne({_id: key}); null is the empty list
RepoGet(c, key, idProperty) == FirstOf(FromDb(FindDocs(c, ById(key)), idProperty))

\* getMany: find({_id: {$in: keys}})
RepoGetMany(c, keys, idProperty) ==
    FromDb(FindDocs(c, "_id" :> [op |-> "$in", val |-> keys]), idProperty)

\* find: findOne(query)
RepoFind(c, filter, idProperty) == FirstOf(FromDb(FindDocs(c, filter), idProperty))

\* findAll: find(query).toArray()
RepoFindAll(c, filter, idProperty) == FromDb(FindDocs(c, filter), idProperty)

\* count: find(query, {}).count()
RepoCount(c, filter) == Len(FindDocs(c, filter))

\* the identity insert generates: none the application uses, none generated before
GenerateId(n) == MaxKey + n + 1

Get(key) ==
    /\ lastOp' = "get"
    /\ lastCall' = Call("findOne", GetOptions(repoSession, NoOptions))
    /\ ret' = [NoRet EXCEPT !.list = RepoGet(collection, key, RepoIdProperty)]
    /\ UNCHANGED <<collection, repoSession, cursor, oids, migVars, auxVars>>

GetMany(keys) ==
    /\ lastOp' = "getMany"
    /\ lastCall' = Call("find", GetOptions(repoSession, NoOptions))
    /\ ret' = [NoRet EXCEPT !.list = RepoGetMany(collection, keys, RepoIdProperty)]
    /\ UNCHANGED <<collection, repoSession, cursor, oids, migVars, auxVars>>

\* keys.filter(x => x != null)
NonNull(keys) == SelectSeq(keys, LAMBDA k : k /= Null)

\* [...new Set(keys)]: the first occurrence of each key, in order
RECURSIVE Distinct(_)
Distinct(keys) ==
    IF keys = <<>> THEN <<>>
    ELSE LET init == Distinct(SubSeq(keys, 1, Len(keys) - 1))
             last == keys[Len(keys)]
         IN  IF last \in Range(init) THEN init ELSE Append(init, last)

\* the keys getManyAsMap hands to getMany, without the Set
LookupKeysUnfiltered(keys) == NonNull(keys)

\* getManyAsMap: the keys it hands to getMany
LookupKeys(keys) == Distinct(NonNull(keys))

\* getManyAsMap: map.set(entry[idProperty], entry) for each entry, the last wins
RECURSIVE MapOf(_, _)
MapOf(entries, idProperty) ==
    IF entries = <<>> THEN <<>>
    ELSE LET e == entries[Len(entries)]
             init == MapOf(SubSeq(entries, 1, Len(entries) - 1), idProperty)
         IN  [k \in DOMAIN init \cup {e[idProperty]} |->
                 IF k = e[idProperty] THEN e ELSE init[k]]

GetManyAsMap(keys) ==
    /\ lastOp' = "getManyAsMap"
    /\ lastCall' = Call("find", GetOptions(repoSession, NoOptions))
    /\ LET sent == LookupKeys(keys)
           entries == RepoGetMany(collection, sent, RepoIdProperty)
       IN  ret' = [NoRet EXCEPT !.arg = keys, !.sent = sent, !.list = entries,
                                !.map = MapOf(entries, RepoIdProperty)]
    /\ UNCHANGED <<collection, repoSession, cursor, oids, migVars, auxVars>>

GetAll ==
    /\ lastOp' = "getAll"
    /\ lastCall' = Call("find", GetOptions(repoSession, NoOptions))
    /\ ret' = [NoRet EXCEPT !.list = RepoGetAll(collection, RepoIdProperty)]
    /\ UNCHANGED <<collection, repoSession, cursor, oids, migVars, auxVars>>

Find(f) ==
    /\ lastOp' = "find"
    /\ lastCall' = Call("findOne", GetOptions(repoSession, NoOptions))
    /\ ret' = [NoRet EXCEPT !.list = RepoFind(collection, f, RepoIdProperty)]
    /\ UNCHANGED <<collection, repoSession, cursor, oids, migVars, auxVars>>

FindAll(f) ==
    /\ lastOp' = "findAll"
    /\ lastCall' = Call("find", GetOptions(repoSession, NoOptions))
    /\ ret' = [NoRet EXCEPT !.list = RepoFindAll(collection, f, RepoIdProperty)]
    /\ UNCHANGED <<collection, repoSession, cursor, oids, migVars, auxVars>>

\* count(f): this.collection.find(query, {}).count()
Count(f) ==
    /\ lastOp' = "count"
    /\ lastCall' = Call("count", NoOptions)
    /\ ret' = [NoRet EXCEPT !.n = RepoCount(collection, f)]
    /\ UNCHANGED <<collection, repoSession, cursor, oids, migVars, auxVars>>

\* insert(value): the caller's record gets the generated identity; a
\* duplicate identity makes insertOne throw (ret.ok is FALSE)
Insert(value) ==
    /\ value[RepoIdProperty] = Null => oids < MaxGen
    /\ Len(collection) < MaxDocs
    /\ LET v == IF value[RepoIdProperty] = Null
                THEN [value EXCEPT ![RepoIdProperty] = GenerateId(oids)] ELSE value
           res == RepoInsert(collection, value, RepoIdProperty, GenerateId(oids))
       IN  /\ oids' = IF value[RepoIdProperty] = Null THEN oids + 1 ELSE oids
           /\ collection' = res.coll
           /\ ret' = [NoRet EXCEPT !.list = <<v>>, !.ok = res.ok, !.arg = <<value>>]
    /\ lastOp' = "insert"
    /\ lastCall' = Call("insertOne", GetOptions(repoSession, NoOptions))
    /\ UNCHANGED <<repoSession, cursor, migVars, auxVars>>

Replace(value) ==
    /\ collection' = RepoReplace(collection, value, RepoIdProperty)
    /\ lastOp' = "replace"
    /\ lastCall' = Call("replaceOne", GetOptions(repoSession, NoOptions))
    /\ ret' = [NoRet EXCEPT !.list = <<value>>, !.ok = TRUE]
    /\ UNCHANGED <<repoSession, cursor, oids, migVars, auxVars>>

Update(value) ==
    /\ Len(RepoUpdate(collection, value, RepoIdProperty)) <= MaxDocs
    /\ collection' = RepoUpdate(collection, value, RepoIdProperty)
    /\ lastOp' = "update"
    /\ lastCall' = Call("replaceOne", GetOptions(repoSession, [NoOptions EXCEPT !.upsert = TRUE]))
    /\ ret' = [NoRet EXCEPT !.list = <<value>>, !.ok = TRUE]
    /\ UNCHANGED <<repoSession, cursor, oids, migVars, auxVars>>

\* mutant of Delete: the call reports res.acknowledged
DeleteAcknowledged(key) ==
    /\ collection' = DeleteOne(collection, key)
    /\ lastOp' = "delete"
    /\ lastCall' = Call("deleteOne", GetOptions(repoSession, NoOptions))
    /\ ret' = [NoRet EXCEPT !.ok = TRUE, !.arg = <<key>>]
    /\ UNCHANGED <<repoSession, cursor, oids, migVars, auxVars>>

\* delete(key): res.deletedCount > 0
Delete(key) ==
    /\ collection' = DeleteOne(collection, key)
    /\ lastOp' = "delete"
    /\ lastCall' = Call("deleteOne", GetOptions(repoSession, NoOptions))
    /\ ret' = [NoRet EXCEPT !.ok = (Len(collection) - Len(DeleteOne(collection, key)) > 0),
                            !.arg = <<key>>]
    /\ UNCHANGED <<repoSession, cursor, oids, migVars, auxVars>>

\* deleteMany(f): res.deletedCount
DeleteManyOp(f) ==
    /\ collection' = DeleteMany(collection, f)
    /\ lastOp' = "deleteMany"
    /\ lastCall' = Call("deleteMany", GetOptions(repoSession, NoOptions))
    /\ ret' = [NoRet EXCEPT !.n = Len(collection) - Len(DeleteMany(collection, f))]
    /\ UNCHANGED <<repoSession, cursor, oids, migVars, auxVars>>

\* ------------------------------------------------- MongoObjectQuery
\* MongoObjectQuery.getOptions
CursorGetOptions(cur, opt) == GetOptions(cur.session, opt)

\* prepare(addSession): the options of collection.find(this.query, ...)
PrepareOptions(cur, addSession) ==
    IF addSession THEN CursorGetOptions(cur, NoOptions) ELSE NoOptions

\* prepare: the documents the store's cursor yields, with the limit, skip and
\* sort that are set: the store sorts, then skips, then limits
Prepare(cur, c) ==
    LET found == FindDocs(c, cur.query)
        sorted == IF cur.sortValue /= NoSort
                  THEN SortDocs(found, cur.sortValue.field, cur.sortValue.asc) ELSE found
        skipped == IF cur.skipValue /= Null THEN SkipDocs(sorted, cur.skipValue) ELSE sorted
    IN  IF cur.limitValue /= Null THEN LimitDocs(skipped, cur.limitValue) ELSE skipped

\* limit(n): this.limitValue = limit; return this
WithLimit(cur, n) == [cur EXCEPT !.limitValue = n]

\* array(): prepare(true).toArray(), converted
ArrayOf(cur, c) == FromDb(Prepare(cur, c), RepoIdProperty)

\* one(): this.limit(1).prepare(true).toArray(), its first element or null
OneOf(cur, c) == FirstOf(FromDb(Prepare(WithLimit(cur, 1), c), RepoIdProperty))

\* count(): prepare(false).count(): the count of the prepared cursor, the
\* limit and skip that are set applied
CountOf(cur, c) == Len(Prepare(cur, c))

\* repository.query(f): a new cursor, bound to the repository's session
QueryOp(f) ==
    /\ cursor' = [NoCursor EXCEPT !.live = TRUE, !.query = f, !.session = repoSession]
    /\ lastOp' = "query"
    /\ lastCall' = NoCall
    /\ ret' = NoRet
    /\ UNCHANGED <<collection, repoSession, oids, migVars, auxVars>>

CursorLimit(n) ==
    /\ cursor.live
    /\ cursor' = WithLimit(cursor, n)
    /\ lastOp' = "cursor.build"
    /\ lastCall' = NoCall
    /\ ret' = NoRet
    /\ UNCHANGED <<collection, repoSession, oids, migVars, auxVars>>

\* skip(n): this.skipValue = skip; return this
CursorSkip(n) ==
    /\ cursor.live
    /\ cursor' = [cursor EXCEPT !.skipValue = n]
    /\ lastOp' = "cursor.build"
    /\ lastCall' = NoCall
    /\ ret' = NoRet
    /\ UNCHANGED <<collection, repoSession, oids, migVars, auxVars>>

\* sort(field, asc): this.sortValue = {field, asc}; return this
CursorSort(field, asc) ==
    /\ cursor.live
    /\ cursor' = [cursor EXCEPT !.sortValue = [field |-> field, asc |-> asc]]
    /\ lastOp' = "cursor.build"
    /\ lastCall' = NoCall
    /\ ret' = NoRet
    /\ UNCHANGED <<collection, repoSession, oids, migVars, auxVars>>

\* one(): limit(1) is applied to this very cursor, and stays
CursorOne ==
    /\ cursor.live
    /\ cursor' = WithLimit(cursor, 1)
    /\ lastOp' = "cursor.one"
    /\ lastCall' = Call("find", PrepareOptions(cursor, TRUE))
    /\ ret' = [NoRet EXCEPT !.list = OneOf(cursor, collection)]
    /\ UNCHANGED <<collection, repoSession, oids, migVars, auxVars>>

CursorArray ==
    /\ cursor.live
    /\ lastOp' = "cursor.array"
    /\ lastCall' = Call("find", PrepareOptions(cursor, TRUE))
    /\ ret' = [NoRet EXCEPT !.list = ArrayOf(cursor, collection)]
    /\ UNCHANGED <<collection, repoSession, cursor, oids, migVars, auxVars>>

CursorCount ==
    /\ cursor.live
    /\ lastOp' = "cursor.count"
    /\ lastCall' = Call("count", PrepareOptions(cursor, FALSE))
    /\ ret' = [NoRet EXCEPT !.n = CountOf(cursor, collection)]
    /\ UNCHANGED <<collection, repoSession, cursor, oids, migVars, auxVars>>

\* exists(): (await this.count()) > 0
CursorExists ==
    /\ cursor.live
    /\ lastOp' = "cursor.exists"
    /\ lastCall' = Call("count", PrepareOptions(cursor, FALSE))
    /\ ret' = [NoRet EXCEPT !.ok = (CountOf(cursor, collection) > 0)]
    /\ UNCHANGED <<collection, repoSession, cursor, oids, migVars, auxVars>>

\* a repository constructed without or with a session, on an empty collection
InitRepo ==
    /\ collection = <<>>
    /\ repoSession \in {NoSession, "session"}
    /\ cursor = NoCursor
    /\ oids = 0
    /\ lastOp = "none"
    /\ lastCall = NoCall
    /\ ret = NoRet
    /\ migrations = <<>>
    /\ MigIdle
    /\ AuxIdle

\* the repository's operations, called in any order
NextRepo ==
    \/ \E key \in Keys : Get(key)
    \/ \E keys \in KeyLists : GetMany(keys)
    \/ \E keys \in MapKeyLists : GetManyAsMap(keys)
    \/ GetAll
    \/ \E f \in Filters : Find(f)
    \/ \E f \in Filters : FindAll(f)
    \/ \E f \in Filters : Count(f)
    \/ \E value \in Records : Insert(value)
    \/ \E value \in [id : Keys, v : Vals] : Replace(value)
    \/ \E value \in [id : Keys, v : Vals] : Update(value)
    \/ \E key \in Keys : Delete(key)
    \/ \E f \in Filters : DeleteManyOp(f)

SpecRepo == InitRepo /\ [][NextRepo]_vars

\* the collections of at most MaxDocs documents, no identity twice
Collections ==
    LET Docs == [_id : Keys, v : Vals]
        Seqs == UNION {[1 .. n -> Docs] : n \in 0 .. MaxDocs}
    IN  {c \in Seqs : \A i, j \in DOMAIN c : c[i]["_id"] = c[j]["_id"] => i = j}

\* a repository bound to any collection, with or without a session
InitCursor ==
    /\ collection \in Collections
    /\ repoSession \in {NoSession, "session"}
    /\ cursor = NoCursor
    /\ oids = 0
    /\ lastOp = "none"
    /\ lastCall = NoCall
    /\ ret = NoRet
    /\ migrations = <<>>
    /\ MigIdle
    /\ AuxIdle

\* a cursor obtained from query(), its builder and terminal operations called
\* in any order on an unchanged store
NextCursor ==
    \/ \E f \in Filters : QueryOp(f)
    \/ \E n \in 0 .. MaxLimit : CursorLimit(n)
    \/ \E n \in 0 .. MaxLimit : CursorSkip(n)
    \/ \E asc \in BOOLEAN : CursorSort("v", asc)
    \/ CursorOne
    \/ CursorArray
    \/ CursorCount
    \/ CursorExists

SpecCursor == InitCursor /\ [][NextCursor]_vars

\* ------------------------------------- the identity mapping on its own
\* the id properties a repository is constructed with
IdProperties == {"id", "key"}

\* the application fields a record may have beside its identity
AppFields == {"v", "w"}

\* the valid records: the identity field (Null: not set), some application
\* fields, none named "_id"
ValidRecords(idProperty) ==
    UNION {{f \in [fields \cup {idProperty} -> Keys \cup {Null} \cup Vals] :
               /\ f[idProperty] \in Keys \cup {Null}
               /\ \A k \in fields : f[k] \in Vals} : fields \in SUBSET AppFields}

InitConvert ==
    /\ cvIdProperty \in IdProperties
    /\ cvObj \in ValidRecords(cvIdProperty)
    /\ cvDbObj = NoObj
    /\ cvBack = NoObj
    /\ cvPc = "obj"
    /\ migrations = <<>>
    /\ MigIdle
    /\ RepoIdle
    /\ QueryIdle
    /\ CrashIdle
    /\ CollIdle

\* convertToDbObj(obj): the result is a fresh object, obj is only read
ToDbObj ==
    /\ cvPc = "obj"
    /\ cvDbObj' = ConvertToDbObj(cvObj, cvIdProperty)
    /\ cvPc' = "dbObj"
    /\ UNCHANGED <<cvIdProperty, cvObj, cvBack, migVars, repoVars, queryVars, crashVars, collVars>>

\* convertFromDbObj(dbObj): dbObj is changed in place and returned
FromDbObj ==
    /\ cvPc = "dbObj"
    /\ cvBack' = ConvertFromDbObj(cvDbObj, cvIdProperty)
    /\ cvDbObj' = ConvertFromDbObj(cvDbObj, cvIdProperty)
    /\ cvPc' = "back"
    /\ UNCHANGED <<cvIdProperty, cvObj, migVars, repoVars, queryVars, crashVars, collVars>>

NextConvert ==
    \/ ToDbObj
    \/ FromDbObj

SpecConvert == InitConvert /\ [][NextConvert]_vars

\* ------------------------------------------------ the builder on its own
\* the leaves a caller builds: empty, and eq, neq, gt, lt on the field v
QLeaves ==
    {QEmpty} \cup UNION {{QEq(RepoIdProperty, "v", x), QNeq(RepoIdProperty, "v", x),
                          QGt(RepoIdProperty, "v", x), QLt(RepoIdProperty, "v", x)} : x \in Vals}

\* the documents a predicate is matched against
QDocs == [_id : Keys, v : Vals]

InitQuery ==
    /\ qPred \in QLeaves
    /\ qNot = QEmpty
    /\ qCombined = 0
    /\ qPc = "built"
    /\ migrations = <<>>
    /\ MigIdle
    /\ RepoIdle
    /\ ConvIdle
    /\ CrashIdle
    /\ CollIdle

\* Query.and(p, leaf)
And(leaf) ==
    /\ qPc = "built"
    /\ qCombined < MaxCombine
    /\ qPred' = QAnd(<<qPred, leaf>>)
    /\ qCombined' = qCombined + 1
    /\ UNCHANGED <<qNot, qPc, migVars, repoVars, convVars, crashVars, collVars>>

\* Query.or(p, leaf)
Or(leaf) ==
    /\ qPc = "built"
    /\ qCombined < MaxCombine
    /\ qPred' = QOr(<<qPred, leaf>>)
    /\ qCombined' = qCombined + 1
    /\ UNCHANGED <<qNot, qPc, migVars, repoVars, convVars, crashVars, collVars>>

\* Query.not(p)
Not ==
    /\ qPc = "built"
    /\ qNot' = QNot(qPred)
    /\ qPc' = "negated"
    /\ UNCHANGED <<qPred, qCombined, migVars, repoVars, convVars, crashVars, collVars>>

NextQuery ==
    \/ \E leaf \in QLeaves : And(leaf)
    \/ \E leaf \in QLeaves : Or(leaf)
    \/ Not

SpecQuery == InitQuery /\ [][NextQuery]_vars

\* ------------------------------------------ MongoDbManager.getCollection
\* mutant of InCollectionsMap: the cache is never hit
InCollectionsMapNever(map, name) == FALSE

\* collectionName in this.collectionsMap
InCollectionsMap(map, name) == map[name] /= 0

InitColl ==
    /\ CollIdle
    /\ migrations = <<>>
    /\ MigIdle
    /\ RepoIdle
    /\ ConvIdle
    /\ QueryIdle
    /\ CrashIdle

\* getCollection(name) up to its return: the test of collectionsMap and the
\* assignment to it run without an await in between. A new entry holds a new
\* handle from db.collection(name); it is resolved at once when no index is
\* declared, and pending on the index task otherwise.
GetCollection(c, name) ==
    /\ cPc[c] = "idle"
    /\ cPc' = [cPc EXCEPT ![c] = "awaiting"]
    /\ IF ~InCollectionsMap(collectionsMap, name)
       THEN LET p == Len(promises) + 1
            IN  /\ promises' = Append(promises,
                       [name |-> name, handle |-> p, next |-> 1,
                        state |-> IF name \in DOMAIN Indexes THEN "pending" ELSE "resolved"])
                /\ collectionsMap' = [collectionsMap EXCEPT ![name] = p]
                /\ cPromise' = [cPromise EXCEPT ![c] = p]
       ELSE /\ cPromise' = [cPromise EXCEPT ![c] = collectionsMap[name]]
            /\ UNCHANGED <<promises, collectionsMap>>
    /\ UNCHANGED <<created, migVars, repoVars, convVars, queryVars, crashVars>>

\* the index task: await collection.createIndex(index), which may throw
CreateIndex(p) ==
    /\ promises[p].state = "pending"
    /\ promises[p].next <= Len(Indexes[promises[p].name])
    /\ \/ /\ created' = [created EXCEPT ![promises[p].name][promises[p].next] = @ + 1]
          /\ promises' = [promises EXCEPT ![p].next = @ + 1]
       \/ /\ promises' = [promises EXCEPT ![p].state = "rejected"]
          /\ UNCHANGED created
    /\ UNCHANGED <<collectionsMap, cPc, cPromise, migVars, repoVars, convVars, queryVars,
                   crashVars>>

\* the index task: return collection, after the loop
ResolveCollection(p) ==
    /\ promises[p].state = "pending"
    /\ promises[p].next > Len(Indexes[promises[p].name])
    /\ promises' = [promises EXCEPT ![p].state = "resolved"]
    /\ UNCHANGED <<collectionsMap, created, cPc, cPromise, migVars, repoVars, convVars,
                   queryVars, crashVars>>

\* the caller's await ends: with the handle, or with the index task's error
Receive(c) ==
    /\ cPc[c] = "awaiting"
    /\ promises[cPromise[c]].state /= "pending"
    /\ cPc' = [cPc EXCEPT ![c] = IF promises[cPromise[c]].state = "resolved"
                                 THEN "got" ELSE "failed"]
    /\ UNCHANGED <<collectionsMap, promises, created, cPromise, migVars, repoVars,
                   convVars, queryVars, crashVars>>

NextColl ==
    \/ \E c \in Callers, name \in CollNames : GetCollection(c, name)
    \/ \E p \in DOMAIN promises : CreateIndex(p)
    \/ \E p \in DOMAIN promises : ResolveCollection(p)
    \/ \E c \in Callers : Receive(c)

SpecColl == InitColl /\ [][NextColl]_vars

\* ------------------------------------------------------------ claims
\* the ledger records of migration id
LedgerOf(coll, id) == {coll[i] : i \in IdxOfId(coll, id)}

\* the runs that settled with no store call failed and no manual repair before
CleanRun(n) == ~runLog[n].fault /\ runLog[n].repairs = 0

C2_FailLeavesLedger ==
    \A n \in DOMAIN runLog :
        (runLog[n].bodyErr /= NoError /\ ~runLog[n].fault) =>
            LET k == runLog[n].idx
                led == runLog[n].ledger
            IN  /\ runLog[n].error /= NoError
                /\ k \in DOMAIN migrations
                /\ \A d \in LedgerOf(led, migrations[k]) :
                       d.status = "FAIL" /\ d.endDate /= Null
                /\ LedgerOf(led, migrations[k]) /= {}
                /\ \A j \in 1 .. k - 1 :
                       /\ LedgerOf(led, migrations[j]) /= {}
                       /\ \A d \in LedgerOf(led, migrations[j]) : d.status = "SUCCESS"
                /\ \A j \in k + 1 .. Len(migrations) :
                       /\ LedgerOf(led, migrations[j]) = {}
                       /\ runLog[n].executed[migrations[j]] = 0

C2_Witness ==
    \E n \in DOMAIN runLog :
        /\ runLog[n].bodyErr /= NoError
        /\ ~runLog[n].fault
        /\ runLog[n].idx > 1
        /\ runLog[n].idx < Len(migrations)

\* C3: a go() that starts on a ledger holding a record that is not SUCCESS is
\* rejected with the gate's error in that very step: no body is started, no
\* session is opened, the ledger is not written.  Every start is covered, so
\* every later run is, until the record is changed by hand.
C3_GateBlocks ==
    [][(runs' = runs + 1 /\ \E i \in DOMAIN ledger : ledger[i].status /= "SUCCESS") =>
          /\ pc'[R1] = "done"
          /\ result'[R1] = GateError
          /\ ledger' = ledger
          /\ executed' = executed
          /\ running' = running
          /\ openSessions' = openSessions
          /\ wt'[R1] = "none"
          /\ committed' = committed]_vars

C3_Witness ==
    /\ Len(runLog) >= 3
    /\ runLog[2].error = GateError
    /\ runLog[3].error = GateError
    /\ runLog[3].ledger = runLog[1].ledger
    /\ \E i \in DOMAIN ledger : ledger[i].status = "PERFORMING"

\* C4: when a migration body threw e, the error go() is rejected with is e or
\* carries e as its cause.
C4_CausePreserved ==
    \A n \in DOMAIN runLog :
        (runLog[n].bodyErr /= NoError /\ ~runLog[n].fault) =>
            \/ runLog[n].error = runLog[n].bodyErr
            \/ runLog[n].error.cause = runLog[n].bodyErr.message

\* C5: the ledger never holds two records of one migration id, and no step of
\* the runner changes or removes a record that is SUCCESS or FAIL.
C5_LedgerRecords ==
    /\ [](\A i, j \in DOMAIN ledger : ledger[i]["_id"] = ledger[j]["_id"] => i = j)
    /\ [][repairs' = repairs =>
            \A i \in DOMAIN ledger :
                ledger[i].status \in {"SUCCESS", "FAIL"} =>
                    i \in DOMAIN ledger' /\ ledger'[i] = ledger[i]]_vars

C5_Witness ==
    /\ \E i \in DOMAIN ledger : ledger[i].status = "SUCCESS"
    /\ \E i \in DOMAIN ledger : ledger[i].status = "FAIL"
    /\ runs >= 2
    /\ pc[R1] = "done"

\* C6: at most one body is in progress, and while the body of the k-th configured
\* migration is in progress every earlier configured migration has a SUCCESS record.
C6_OneAtATimeInOrder ==
    /\ Cardinality(running) <= 1
    /\ pc[R1] = "body" =>
          /\ running = {CurId(R1)}
          /\ \A j \in 1 .. idx[R1] - 1 :
                \E d \in LedgerOf(ledger, migrations[j]) : d.status = "SUCCESS"

C6_Witness ==
    /\ pc[R1] = "body"
    /\ idx[R1] >= 3

\* C7: once withTransaction has settled, resolved or rejected, the session it
\* started has been ended.
C7_SessionEnded ==
    \A r \in Runners : wt[r] \in {"resolved", "rejected"} => r \notin openSessions

\* withTransaction rejected although func resolved: the commit threw
C7_Witness ==
    /\ wt[R1] = "rejected"
    /\ bodyErr[R1] = NoError
    /\ txn[R1] = "aborted"
    /\ openSessions = {}

\* C8: every store call of a repository constructed with a session, and of a
\* cursor obtained from it, carries that session.
C8_CallsBoundToSession ==
    (repoSession /= NoSession /\ lastCall /= NoCall) => lastCall.session = repoSession

TerminalOps == {"cursor.one", "cursor.array", "cursor.count", "cursor.exists"}

\* C9: on an unchanged store a terminal operation leaves the results of the
\* terminal operations as they were: array(), one() and count() called after it
\* return what they would have returned before it.
C9_TerminalOpsRepeatable ==
    [][(lastOp' \in TerminalOps /\ cursor.live /\ collection' = collection) =>
          /\ ArrayOf(cursor', collection') = ArrayOf(cursor, collection)
          /\ OneOf(cursor', collection') = OneOf(cursor, collection)
          /\ CountOf(cursor', collection') = CountOf(cursor, collection)]_vars

\* C10: count() returns the number of documents that match the cursor's
\* predicate, whatever limit and skip are set, and exists() tells whether that
\* number is positive.
C10_CountIgnoresLimitSkip ==
    /\ lastOp = "cursor.count" => ret.n = Len(FindDocs(collection, cursor.query))
    /\ lastOp = "cursor.exists" => ret.ok = (Len(FindDocs(collection, cursor.query)) > 0)

\* the documents of a collection whose identity is not id
OtherDocs(coll, id) == {coll[i] : i \in DOMAIN coll \ IdxOfId(coll, id)}

\* C11: after a successful insert(r), get(id of r) returns a record equal to
\* r; a record passed without identity has been given one, not null, and it is
\* found under it; the other fields are the ones passed.
C11_InsertThenGet ==
    (lastOp = "insert" /\ ret.ok) =>
        LET passed == ret.arg[1]
            r == ret.list[1]
        IN  /\ r[RepoIdProperty] /= Null
            /\ passed[RepoIdProperty] /= Null => r = passed
            /\ r.v = passed.v
            /\ RepoGet(collection, r[RepoIdProperty], RepoIdProperty) = <<r>>

C11_Witness ==
    /\ lastOp = "insert"
    /\ ret.ok
    /\ ret.arg[1][RepoIdProperty] = Null
    /\ Len(collection) = MaxDocs

C13_DeleteOnce ==
    /\ [][lastOp' = "delete" =>
             LET id == ret'.arg[1]
             IN  /\ ret'.ok = (IdxOfId(collection, id) /= {})
                 /\ collection' = SelectSeq(collection, LAMBDA d : d["_id"] /= id)
                 /\ IdxOfId(collection', id) = {}]_vars
    /\ [][\A id \in Keys :
             (IdxOfId(collection, id) = {} /\ lastOp' \notin {"insert", "update"}) =>
                 IdxOfId(collection', id) = {}]_vars

C13_Witness ==
    /\ lastOp = "delete"
    /\ ret.ok
    /\ Len(collection) = MaxDocs - 1
    /\ collection /= <<>>

\* C14: getManyAsMap(keys) hands each distinct non-null key to the store
\* once, and returns a map with one entry for each distinct non-null key that
\* is in the store, under the record's identity, and no other entry.
C14_GetManyAsMap ==
    lastOp = "getManyAsMap" =>
        LET asked == Range(ret.arg) \ {Null}
        IN  /\ Range(ret.sent) = asked
            /\ Len(ret.sent) = Cardinality(asked)
            /\ DOMAIN ret.map = {k \in asked : IdxOfId(collection, k) /= {}}
            /\ \A k \in DOMAIN ret.map :
                   /\ ret.map[k][RepoIdProperty] = k
                   /\ <<ret.map[k]>> = RepoGet(collection, k, RepoIdProperty)

C14_Witness ==
    /\ lastOp = "getManyAsMap"
    /\ Len(ret.arg) = 3
    /\ ret.arg[1] = ret.arg[3]
    /\ DOMAIN ret.map = {ret.arg[1]}
    /\ Len(collection) = MaxDocs

\* C15: a valid record converted to its storage form and back is the record
\* again: in the storage form the identity is under the reserved key and
\* nowhere else, every other field has its name and value, and the record
\* passed is not modified by the conversion.
C15_RoundTrip ==
    /\ [](cvPc = "dbObj" =>
             /\ DOMAIN cvDbObj = (DOMAIN cvObj \ {cvIdProperty}) \cup {"_id"}
             /\ cvDbObj["_id"] = cvObj[cvIdProperty]
             /\ \A k \in DOMAIN cvObj \ {cvIdProperty} : cvDbObj[k] = cvObj[k])
    /\ [](cvPc = "back" => cvBack = cvObj)
    /\ [][cvPc' = "dbObj" => cvObj' = cvObj]_vars

C15_Witness ==
    /\ cvPc = "back"
    /\ cvIdProperty = "key"
    /\ DOMAIN cvObj = {"key", "v", "w"}
    /\ cvObj["key"] /= Null
    /\ cvBack = cvObj

\* C16: for every predicate p of the builder, not(p) is a predicate the store
\* accepts, and it matches a document exactly when p does not match it.
C16_NotNegates ==
    qPc = "negated" =>
        /\ ValidQuery(qNot)
        /\ \A doc \in QDocs : MatchesQuery(doc, qNot) = ~MatchesQuery(doc, qPred)

\* C17: after a run was interrupted between the insert of a migration's
\* PERFORMING record and the update of its status, and as long as nobody
\* repairs the ledger, the record stays PERFORMING with endDate null, every
\* later run is rejected at the gate, and no body is executed: the interrupted
\* migration's body is not executed again.
C17_InterruptedRunBlocks ==
    (interrupted.id /= Null /\ repairs = interrupted.repairs) =>
        /\ \A i \in DOMAIN ledger :
               ledger[i]["_id"] = interrupted.id =>
                   ledger[i].status = "PERFORMING" /\ ledger[i].endDate = Null
        /\ Cardinality(IdxOfId(ledger, interrupted.id)) = 1
        /\ executed = interrupted.executed
        /\ pc[R1] \in {"idle", "done"}
        /\ \A n \in DOMAIN runLog : n > interrupted.at => runLog[n].error = GateError

C17_Witness ==
    /\ interrupted.id /= Null
    /\ repairs = interrupted.repairs
    /\ executed[interrupted.id] = 1
    /\ interrupted.id \in committed
    /\ Len(runLog) > interrupted.at
    /\ pc[R1] = "done"

\* C18: as long as nobody repairs the ledger, a record says SUCCESS only for a
\* migration whose transaction committed and FAIL only for one whose
\* transaction did not commit, also when the update that persists SUCCESS
\* fails after the commit.
C18_LedgerReflectsTransaction ==
    repairs = 0 =>
        \A i \in DOMAIN ledger :
            /\ ledger[i].status = "SUCCESS" => ledger[i]["_id"] \in committed
            /\ ledger[i].status = "FAIL" => ledger[i]["_id"] \notin committed

\* runner r takes the step that inserts the ledger record of its migration
InsertStep(r) == pc[r] = "loop" /\ idx[r] <= Len(migrations) /\ pc'[r] /= "loop"

\* C19: when two go() invocations with the same migrations interleave, no
\* body is executed more than once; the insert of a ledger record whose id is
\* in the ledger fails, and the invocation ends there with that error, no body
\* executed and the ledger as it was.
C19_NoBodyTwice ==
    /\ [](\A id \in MigIds : executed[id] <= 1)
    /\ [][\A r \in Runners :
             (InsertStep(r) /\ IdxOfId(ledger, CurId(r)) /= {}) =>
                 /\ pc'[r] = "done"
                 /\ result'[r] = StoreError
                 /\ ledger' = ledger
                 /\ executed' = executed]_vars

C19_Witness ==
    \E r \in Runners :
        /\ pc[r] = "done"
        /\ result[r] = StoreError
        /\ ~runFault[r]
        /\ idx[r] <= Len(migrations)
        /\ executed[CurId(r)] = 1
        /\ \E q \in Runners \ {r} : pc[q] = "done" /\ result[q] = NoError

\* C20: however the getCollection calls of one manager interleave, each
\* declared index of a collection is created at most once, the callers of one
\* name that get a handle get the same one, and a caller has the handle only
\* when every declared index of the collection has been created.
C20_IndexesOnceSameHandle ==
    /\ \A n \in DOMAIN Indexes : \A i \in DOMAIN Indexes[n] : created[n][i] <= 1
    /\ \A c, d \in Callers :
           (cPc[c] = "got" /\ cPc[d] = "got"
                /\ promises[cPromise[c]].name = promises[cPromise[d]].name) =>
               promises[cPromise[c]].handle = promises[cPromise[d]].handle
    /\ \A c \in Callers :
           (cPc[c] = "got" /\ promises[cPromise[c]].name \in DOMAIN Indexes) =>
               \A i \in DOMAIN Indexes[promises[cPromise[c]].name] :
                   created[promises[cPromise[c]].name][i] = 1

C20_Witness ==
    \E c, d \in Callers :
        /\ c /= d
        /\ cPc[c] = "got"
        /\ cPc[d] = "got"
        /\ promises[cPromise[c]].name = "indexed"
        /\ promises[cPromise[d]].name = "indexed"
        /\ \A i \in DOMAIN Indexes["indexed"] : created["indexed"][i] = 1

====
